---- MODULE Spec2Model ----
(***************************************************************************)
(* json_to_csv.py: load_data, save_dataframe_to_csv and main.              *)
(*                                                                         *)
(* Strings the code inspects character by character (the output filename,  *)
(* the output directory, the line read from standard input) are sequences  *)
(* of one-character strings.  Input paths are only compared and printed,   *)
(* so they are plain strings.  JSON records are the names r1, r2.           *)
(***************************************************************************)
EXTENDS Integers, Sequences, FiniteSets, TLC

VARIABLES
    argv,          \* sys.argv: program name followed by the file arguments
    fs,            \* input side of the file system: path -> content
    stdin,         \* the line standard input will deliver to input()
    disk,          \* output side of the file system: written path -> rows
    pc,            \* position of main
    idx,           \* position of the for loop in sys.argv[1:]
    combined,      \* main's accumulator
    exc,           \* the exception travelling to the handler of main
    out,           \* lines printed on standard output
    events,        \* what main did, in order (progress, load, extend, ...)
    exitStatus,    \* process exit status, -1 while running
    w_pc,          \* position of a direct call of save_dataframe_to_csv
    w_data,        \* its arguments
    w_filename,
    w_output_dir,
    w_before,      \* the disk when the call was made
    w_res          \* its outcome

vars == <<argv, fs, stdin, disk, pc, idx, combined, exc, out, events,
          exitStatus, w_pc, w_data, w_filename, w_output_dir, w_before, w_res>>

mainVars == <<argv, fs, stdin, pc, idx, combined, exc, out, events, exitStatus>>
callVars == <<w_pc, w_data, w_filename, w_output_dir, w_before, w_res>>

---------------------------------------------------------------------------
(* Bounds *)

MaxArgs == 2       \* file arguments on the command line
MaxRows == 2       \* records in one input array
MaxData == 2       \* records handed to a direct call of the writer

---------------------------------------------------------------------------
(* Strings *)

Last(s) == s[Len(s)]

\* str.startswith / str.endswith
StartsWith(s, p) == Len(p) <= Len(s) /\ SubSeq(s, 1, Len(p)) = p

\* the bug "p in s" in place of s.endswith(p)
Contains(s, p) ==
    \E k \in 1..Len(s) : k + Len(p) - 1 <= Len(s) /\ SubSeq(s, k, k + Len(p) - 1) = p

EndsWith(s, p) ==
    Len(p) <= Len(s) /\ SubSeq(s, Len(s) - Len(p) + 1, Len(s)) = p

IsSpace(c) == c \in {" ", "\t", "\n"}

\* str.lstrip / str.rstrip / str.strip without arguments
RECURSIVE LStrip(_)
LStrip(s) == IF s # <<>> /\ IsSpace(Head(s)) THEN LStrip(Tail(s)) ELSE s

RECURSIVE RStrip(_)
RStrip(s) ==
    IF s # <<>> /\ IsSpace(Last(s)) THEN RStrip(SubSeq(s, 1, Len(s) - 1)) ELSE s

Strip(s) == RStrip(LStrip(s))

\* str.rstrip('/')
RECURSIVE RStripSep(_)
RStripSep(s) ==
    IF s # <<>> /\ Last(s) = "/" THEN RStripSep(SubSeq(s, 1, Len(s) - 1)) ELSE s

\* str.find('/', from): index (1-based) of the first '/' at or after from, 0 when none
FindSep(s, from) ==
    LET hits == {k \in from..Len(s) : s[k] = "/"}
    IN IF hits = {} THEN 0 ELSE CHOOSE k \in hits : \A j \in hits : k <= j

CSV == <<".", "c", "s", "v">>

---------------------------------------------------------------------------
(* os.path (posixpath) *)

\* The environment: $HOME, and the password database for ~user
Home == <<"/", "h">>
KnownUsers == {<<"u">>}
PwDir(name) == <<"/", "u">>

\* os.path.join(a, b)
Join(a, b) ==
    IF StartsWith(b, <<"/">>) THEN b
    ELSE IF a = <<>> \/ Last(a) = "/" THEN a \o b
    ELSE a \o <<"/">> \o b

\* the bug of leaving the path unexpanded
ExpandUserSkipped(path) == path

\* os.path.expanduser(path)
ExpandUser(path) ==
    IF ~StartsWith(path, <<"~">>) THEN path
    ELSE LET f == FindSep(path, 2)
             i == IF f = 0 THEN Len(path) + 1 ELSE f
             name == SubSeq(path, 2, i - 1)
             rest == SubSeq(path, i, Len(path))
         IN IF i = 2
            THEN (IF RStripSep(Home) \o rest = <<>> THEN <<"/">>
                  ELSE RStripSep(Home) \o rest)
            ELSE IF name \notin KnownUsers THEN path
            ELSE (IF RStripSep(PwDir(name)) \o rest = <<>> THEN <<"/">>
                  ELSE RStripSep(PwDir(name)) \o rest)

---------------------------------------------------------------------------
(* Values, exceptions, printed lines *)

NoFile == ""
NoPath == <<>>

Exc(kind, msg, file) == [kind |-> kind, msg |-> msg, file |-> file]
NoExc == Exc("none", "", NoFile)

\* A Python value returned by the loader: a list or a polars DataFrame
ListVal(rows)  == [type |-> "list", rows |-> rows]
FrameVal(rows) == [type |-> "DataFrame", rows |-> rows]
NoVal == [type |-> "none", rows |-> <<>>]

\* Elements of the dataset: the records (JSON objects); anything else is not an object
Records == {"r1", "r2"}
IsObject(x) == x \in Records

Line(t, file, msg, path) == [t |-> t, file |-> file, msg |-> msg, path |-> path]
Ev(e, i) == [e |-> e, i |-> i]

---------------------------------------------------------------------------
(* load_data *)

Content(kind, rows) == [kind |-> kind, rows |-> rows]

\* pl.read_json(file): a DataFrame or an error of the library, never a list.
\* What the library makes of a top-level scalar or of an array of non-objects
\* depends on its version: it raises or it builds a frame.
read_json(c) ==
    LET err == [exc |-> Exc("ComputeError", "parse", NoFile), val |-> NoVal]
    IN CASE c.kind = "malformed"  -> {err}
         [] c.kind = "listObj"    -> {[exc |-> NoExc, val |-> FrameVal(c.rows)]}
         [] c.kind = "object"     -> {[exc |-> NoExc, val |-> FrameVal(<<"r1">>)]}
         [] OTHER                 -> {err, [exc |-> NoExc, val |-> FrameVal(<<>>)]}

\* os.path.exists(file_path)
exists(files, file_path) == files[file_path].kind # "missing"

\* the bug of a message that leaves the path out
load_data_unnamed(files, file_path) ==
    IF ~exists(files, file_path)
    THEN {[exc |-> Exc("FileNotFoundError", "File not found", NoFile), val |-> NoVal]}
    ELSE IF files[file_path].kind = "directory"
    THEN {[exc |-> Exc("IsADirectoryError", "Is a directory", file_path), val |-> NoVal]}
    ELSE read_json(files[file_path])

\* open() raises on its own when the path is gone or is a directory
load_data(files, file_path) ==
    IF ~exists(files, file_path)
    THEN {[exc |-> Exc("FileNotFoundError", "File not found", file_path), val |-> NoVal]}
    ELSE IF files[file_path].kind = "missing"
    THEN {[exc |-> Exc("FileNotFoundError", "No such file or directory", file_path),
           val |-> NoVal]}
    ELSE IF files[file_path].kind = "directory"
    THEN {[exc |-> Exc("IsADirectoryError", "Is a directory", file_path), val |-> NoVal]}
    ELSE read_json(files[file_path])

---------------------------------------------------------------------------
(* save_dataframe_to_csv *)

DefaultOutputDir == <<"~", "/", "D">>

\* disk with `rows` written at `path`, replacing what was there
WriteFile(d, path, rows) ==
    [p \in DOMAIN d \cup {path} |-> IF p = path THEN rows ELSE d[p]]

Outcome(e, ret, wrote, d, steps) ==
    [exc |-> e, ret |-> ret, wrote |-> wrote, disk |-> d, steps |-> steps]

\* The set of outcomes of one call.  pl.DataFrame(data) may reject data that
\* is not a list of objects; write_csv fails when the target cannot be opened.
save_dataframe_to_csv(data, filename, output_dir, d) ==
    IF ~EndsWith(filename, CSV)
    THEN {Outcome(Exc("ValueError", "Filename must have a .csv extension.", NoFile),
                  NoPath, NoPath, d, <<"check">>)}
    ELSE LET output_path == ExpandUser(Join(output_dir, filename))
             bad == Outcome(Exc("TypeError", "frame", NoFile), NoPath, NoPath, d,
                            <<"check", "path", "frame">>)
             failed == Outcome(Exc("OSError", "write", NoFile), NoPath, NoPath, d,
                               <<"check", "path", "frame", "write">>)
             done == Outcome(NoExc, output_path, output_path,
                             WriteFile(d, output_path, data),
                             <<"check", "path", "frame", "write", "return">>)
         IN IF \A k \in 1..Len(data) : IsObject(data[k])
            THEN {failed, done}
            ELSE {bad, failed, done}

---------------------------------------------------------------------------
(* Inputs *)

RECURSIVE SeqsUpTo(_, _)
SeqsUpTo(S, n) ==
    IF n = 0 THEN {<<>>}
    ELSE SeqsUpTo(S, n - 1) \cup
         {Append(s, x) : s \in {t \in SeqsUpTo(S, n - 1) : Len(t) = n - 1}, x \in S}

Paths == {"a.json", "b.json"}

Contents ==
    {Content(k, <<>>) : k \in {"missing", "directory", "malformed", "scalar",
                               "object", "listNonObj"}}
    \cup {Content("listObj", r) : r \in SeqsUpTo(Records, MaxRows)}

EOF == <<"EOF">>

StdinLines ==
    { <<>>, <<" ">>, <<"a", ".", "c", "s", "v">>, <<" ", "a", ".", "c", "s", "v", "\n">>,
      <<"a", ".", "t", "x", "t">>, EOF }

FileNames ==
    { <<>>, CSV, <<"a", ".", "c", "s", "v">>, <<"a", ".", "t", "x", "t">>,
      <<"a", ".", "c", "s", "v", "x">>, <<"c", "s", "v">>,
      <<"/", "a", ".", "c", "s", "v">>, <<"d", "/", "a", ".", "c", "s", "v">>,
      <<"~", ".", "c", "s", "v">> }

OutputDirs ==
    { DefaultOutputDir, <<"~">>, <<"~", "/">>, <<"~", "u">>, <<"~", "x", "/", "o">>,
      <<"/", "o">>, <<"o", "/">>, <<"o">>, <<>> }

\* what a caller may hand to the writer: records, and things that are no object
DataItems == Records \cup {"Series"}

ProgName == "json_to_csv.py"

---------------------------------------------------------------------------
(* main *)

\* len(sys.argv) < 2, with the bug of counting the program name as an argument
TooFewArgsOffByOne(a) == Len(a) < 1

TooFewArgs(a) == Len(a) < 2

\* isinstance(data, list), with the bug of accepting whatever the loader returns
isinstance_any(v) == TRUE

isinstance_list(v) == v.type = "list"

\* what combined.extend(data) appends: the items of a list; iterating a
\* DataFrame yields its columns
Elements(v) ==
    IF v.type = "list" THEN v.rows
    ELSE IF v.rows = <<>> THEN <<>> ELSE <<"Series">>

\* except Exception, with the bug of catching ValueError alone
CaughtValueErrorOnly(e) == e.kind = "ValueError"

Caught(e) == e.kind # "none"

\* the loop prints its progress line and then loads; the bug of loading first
LoadThenAnnounce(ev, i) == ev \o <<Ev("load", i), Ev("progress", i)>>

AnnounceThenLoad(ev, i) == ev \o <<Ev("progress", i), Ev("load", i)>>

Raise(e) ==
    /\ exc' = e
    /\ pc' = "except"

CheckArgs ==
    /\ pc = "start"
    /\ IF TooFewArgs(argv)
       THEN /\ out' = Append(out, Line("usage", NoFile, "", NoPath))
            /\ exitStatus' = 1
            /\ pc' = "exited"
            /\ UNCHANGED <<combined, idx>>
       ELSE /\ combined' = <<>>
            /\ idx' = 1
            /\ pc' = "loop"
            /\ UNCHANGED <<out, exitStatus>>
    /\ UNCHANGED <<argv, fs, stdin, disk, exc, events>>
    /\ UNCHANGED callVars

\* one iteration of the for loop: the progress line, the load, the type
\* test and the extend
LoopBody ==
    LET file_path == argv[idx + 1]
        loaded    == AnnounceThenLoad(events, idx)
    IN /\ out' = Append(out, Line("progress", file_path, "", NoPath))
       /\ \E r \in load_data(fs, file_path) :
            IF r.exc # NoExc
            THEN /\ Raise(r.exc)
                 /\ events' = loaded
                 /\ UNCHANGED <<combined, idx>>
            ELSE IF ~isinstance_list(r.val)
            THEN /\ Raise(Exc("ValueError", "does not contain a list of dictionaries.",
                              file_path))
                 /\ events' = loaded
                 /\ UNCHANGED <<combined, idx>>
            ELSE /\ combined' = combined \o Elements(r.val)
                 /\ events' = Append(loaded, Ev("extend", idx))
                 /\ idx' = idx + 1
                 /\ UNCHANGED <<pc, exc>>
       /\ UNCHANGED disk

\* the statements after the loop: the prompt, the emptiness test, the writer
\* and the success line
AfterLoop ==
    LET prompted == Append(events, Ev("prompt", 0))
        asked    == Append(out, Line("prompt", NoFile, "", NoPath))
    IN /\ UNCHANGED <<combined, idx>>
       /\ IF stdin = EOF
          THEN /\ Raise(Exc("EOFError", "EOF when reading a line", NoFile))
               /\ events' = prompted
               /\ out' = asked
               /\ UNCHANGED disk
          ELSE IF Strip(stdin) = <<>>
          THEN /\ Raise(Exc("ValueError", "Filename cannot be empty.", NoFile))
               /\ events' = prompted
               /\ out' = asked
               /\ UNCHANGED disk
          ELSE \E r \in save_dataframe_to_csv(combined, Strip(stdin), DefaultOutputDir, disk) :
                 /\ disk' = r.disk
                 /\ IF r.exc # NoExc
                    THEN /\ Raise(r.exc)
                         /\ events' = Append(prompted, Ev("writer", 0))
                         /\ out' = asked
                    ELSE /\ events' = Append(Append(prompted, Ev("writer", 0)), Ev("saved", 0))
                         /\ out' = Append(asked, Line("saved", NoFile, "", r.ret))
                         /\ pc' = "return"
                         /\ UNCHANGED exc

\* the for statement of the try block: the next argument, or the code after
\* the loop once sys.argv[1:] is exhausted
ForLoop ==
    /\ pc = "loop"
    /\ IF idx <= Len(argv) - 1 THEN LoopBody ELSE AfterLoop
    /\ UNCHANGED <<argv, fs, stdin, exitStatus>>
    /\ UNCHANGED callVars

\* the handler of main; an exception it does not catch ends the process
\* with a traceback and status 1
Except ==
    /\ pc = "except"
    /\ IF Caught(exc)
       THEN /\ out' = Append(out, Line("error", exc.file, exc.msg, NoPath))
            /\ pc' = "return"
            /\ UNCHANGED exitStatus
       ELSE /\ exitStatus' = 1
            /\ pc' = "exited"
            /\ UNCHANGED out
    /\ UNCHANGED <<argv, fs, stdin, disk, idx, combined, exc, events>>
    /\ UNCHANGED callVars

\* main returns and the interpreter ends the process
Return ==
    /\ pc = "return"
    /\ exitStatus' = 0
    /\ pc' = "exited"
    /\ UNCHANGED <<argv, fs, stdin, disk, idx, combined, exc, out, events>>
    /\ UNCHANGED callVars

Init ==
    /\ argv \in {<<ProgName>> \o a : a \in SeqsUpTo(Paths, MaxArgs)}
    /\ fs \in [Paths -> Contents]
    /\ stdin \in StdinLines
    /\ disk = << >>
    /\ pc = "start"
    /\ idx = 0
    /\ combined = <<>>
    /\ exc = NoExc
    /\ out = <<>>
    /\ events = <<>>
    /\ exitStatus = -1
    /\ w_pc = "idle"
    /\ w_data = <<>>
    /\ w_filename = <<>>
    /\ w_output_dir = <<>>
    /\ w_before = << >>
    /\ w_res = Outcome(NoExc, NoPath, NoPath, << >>, <<>>)

Next == CheckArgs \/ ForLoop \/ Except \/ Return

Spec == Init /\ [][Next]_vars

---------------------------------------------------------------------------
(* save_dataframe_to_csv called on its own *)

\* a file that may already be there
OldFile == <<"/", "h", "/", "D", "/", "a", ".", "c", "s", "v">>

CallSave ==
    /\ w_pc = "call"
    /\ \E r \in save_dataframe_to_csv(w_data, w_filename, w_output_dir, disk) :
         /\ w_res' = r
         /\ disk' = r.disk
    /\ w_pc' = "returned"
    /\ UNCHANGED <<w_data, w_filename, w_output_dir, w_before>>
    /\ UNCHANGED mainVars

InitCall ==
    /\ argv = <<ProgName>>
    /\ fs = [p \in Paths |-> Content("missing", <<>>)]
    /\ stdin = EOF
    /\ disk \in {<< >>, [p \in {OldFile} |-> <<"r2">>]}
    /\ pc = "exited"
    /\ idx = 0
    /\ combined = <<>>
    /\ exc = NoExc
    /\ out = <<>>
    /\ events = <<>>
    /\ exitStatus = -1
    /\ w_pc = "call"
    /\ w_data \in SeqsUpTo(DataItems, MaxData)
    /\ w_filename \in FileNames
    /\ w_output_dir \in OutputDirs
    /\ w_before = disk
    /\ w_res = Outcome(NoExc, NoPath, NoPath, << >>, <<>>)

NextCall == CallSave

SpecCall == InitCall /\ [][NextCall]_vars

---------------------------------------------------------------------------
(* Properties *)

FileArgs == Tail(argv)
NumFiles == Len(argv) - 1
Exited == pc = "exited"

ErrorLines == SelectSeq(out, LAMBDA l : l.t = "error")
SavedLines == SelectSeq(out, LAMBDA l : l.t = "saved")
HasEvent(e) == \E k \in 1..Len(events) : events[k].e = e
CountEvents(e) == Len(SelectSeq(events, LAMBDA v : v.e = e))
NothingWritten == DOMAIN disk = {}

IsArrayOfObjects(p) == fs[p].kind = "listObj"
AllArraysOfObjects == \A k \in 1..NumFiles : IsArrayOfObjects(FileArgs[k])

\* the rows of the input arrays, file after file
RECURSIVE ConcatRows(_)
ConcatRows(paths) ==
    IF paths = <<>> THEN <<>> ELSE fs[Head(paths)].rows \o ConcatRows(Tail(paths))

\* the entered line, trimmed, is a non-empty name with the .csv suffix
EnteredCsvName ==
    stdin \in {<<"a", ".", "c", "s", "v">>, <<" ", "a", ".", "c", "s", "v", "\n">>}

EnteredBlank == stdin \in {<<>>, <<" ">>}

\* C1: with at least one file argument, every argument an existing JSON
\* array of flat objects, and a non-empty name ending in .csv entered at the
\* prompt, the finished run has written a CSV whose rows are the rows of the
\* input arrays concatenated in command-line order (a write the operating
\* system refuses is the only excuse).
C1_RowsConcatenated ==
    (Exited /\ NumFiles >= 1 /\ AllArraysOfObjects /\ EnteredCsvName)
        => \/ exc.kind = "OSError"
           \/ \E p \in DOMAIN disk :
                /\ disk[p] = ConcatRows(FileArgs)
                /\ Len(disk[p]) = Len(ConcatRows(FileArgs))

\* C2: when the first argument that is not a loadable array of objects is a
\* path that does not exist, the finished run has printed the error line
\* "File not found: <that path>" and has written no output file.
C2_MissingReported ==
    \A k \in 1..NumFiles :
        (/\ Exited
         /\ fs[FileArgs[k]].kind = "missing"
         /\ \A j \in 1..(k - 1) : IsArrayOfObjects(FileArgs[j]))
            => /\ Len(ErrorLines) = 1
               /\ ErrorLines[1].msg = "File not found"
               /\ ErrorLines[1].file = FileArgs[k]
               /\ NothingWritten

\* C3: started with the program name alone, main prints the usage line and
\* ends with status 1; nothing is loaded, no progress line is printed, the
\* user is not prompted and no file is written.
C3_NoArgsUsageOnly ==
    (Len(argv) = 1 /\ pc # "start")
        => /\ Exited
           /\ exitStatus = 1
           /\ out = <<Line("usage", NoFile, "", NoPath)>>
           /\ events = <<>>
           /\ NothingWritten

C3_Witness ==
    Len(argv) = 1 /\ Exited /\ exitStatus = 1 /\ Len(out) = 1 /\ out[1].t = "usage"

\* C4: a finished run has status 1 exactly when no file argument was given
\* and status 0 otherwise; with a file argument, an error that was raised has
\* been printed as exactly one "An error occurred: <message>" line, the last
\* line of the output, and no such line is printed when nothing was raised.
C4_ErrorsCaughtExitZero ==
    Exited =>
        /\ exitStatus \in {0, 1}
        /\ (exitStatus = 1) <=> (NumFiles = 0)
        /\ NumFiles >= 1 =>
              IF exc # NoExc
              THEN /\ Len(ErrorLines) = 1
                   /\ out[Len(out)] = Line("error", exc.file, exc.msg, NoPath)
              ELSE Len(ErrorLines) = 0

C4_Witness ==
    /\ Exited
    /\ NumFiles >= 1
    /\ exc.kind = "FileNotFoundError"
    /\ exitStatus = 0
    /\ Len(ErrorLines) = 1

\* the name does not end with the four characters ".csv"
NotCsvName(f) ==
    \/ Len(f) < 4
    \/ f[Len(f) - 3] # "."
    \/ f[Len(f) - 2] # "c"
    \/ f[Len(f) - 1] # "s"
    \/ f[Len(f)] # "v"

\* C5: a call of save_dataframe_to_csv with a filename that does not end
\* with ".csv" ends in a ValueError after the suffix test alone: the output
\* path is not computed, no table is built, nothing is returned and the
\* disk is as it was when the call was made.
C5_NonCsvRejected ==
    (w_pc = "returned" /\ NotCsvName(w_filename))
        => /\ w_res.exc.kind = "ValueError"
           /\ w_res.exc.msg = "Filename must have a .csv extension."
           /\ w_res.steps = <<"check">>
           /\ w_res.ret = NoPath
           /\ disk = w_before

C5_Witness ==
    /\ w_pc = "returned"
    /\ w_filename = <<"a", ".", "c", "s", "v", "x">>
    /\ w_before # << >>
    /\ w_res.exc.kind = "ValueError"
    /\ disk = w_before

\* C6: with every argument an existing JSON array of flat objects and a
\* blank line on standard input, the finished run has printed the error
\* "Filename cannot be empty.", has not invoked the writer and has printed
\* no success line.
C6_EmptyFilenameReported ==
    (Exited /\ NumFiles >= 1 /\ AllArraysOfObjects /\ EnteredBlank)
        => /\ Len(ErrorLines) = 1
           /\ ErrorLines[1].msg = "Filename cannot be empty."
           /\ ~HasEvent("writer")
           /\ Len(SavedLines) = 0
           /\ NothingWritten

\* an error left the loop at argument idx
StoppedInLoop == exc # NoExc /\ pc \in {"except", "return", "exited"} /\ ~HasEvent("prompt")

\* no argument after idx was announced or loaded, and the user was not asked
NothingAfterFailure ==
    /\ CountEvents("progress") = idx
    /\ CountEvents("load") = idx
    /\ CountEvents("extend") = idx - 1
    /\ \A k \in 1..Len(events) : events[k].i <= idx
    /\ \A k \in 1..Len(out) : out[k].t \notin {"prompt", "saved"}
    /\ Len(SelectSeq(out, LAMBDA l : l.t = "progress")) = idx

C7_WitnessNotAList ==
    /\ Exited
    /\ NumFiles = 2
    /\ idx = 1
    /\ exc.kind = "ValueError"
    /\ exc.file = argv[2]

\* a file whose top-level value is a scalar, an object or an array with
\* elements that are no objects
IsNotArrayOfObjects(p) == fs[p].kind \in {"scalar", "object", "listNonObj"}

\* C8: every element of the accumulated dataset is an object, the writer is
\* never invoked with anything else, and a run that was given a file holding
\* a scalar, an object or an array of non-objects ends with an error line and
\* without any write.
C8_DatasetOnlyObjects ==
    /\ \A k \in 1..Len(combined) : IsObject(combined[k])
    /\ (Exited /\ \E k \in 1..NumFiles : IsNotArrayOfObjects(FileArgs[k]))
          => /\ Len(ErrorLines) = 1
             /\ ~HasEvent("writer")
             /\ NothingWritten

C8_Witness ==
    /\ Exited
    /\ NumFiles >= 1
    /\ fs[argv[2]].kind = "object"
    /\ exc.kind = "ValueError"
    /\ Len(ErrorLines) = 1
    /\ NothingWritten

\* the order the driver's events have when nothing fails
RECURSIVE LoopEvents(_)
LoopEvents(n) ==
    IF n = 0 THEN <<>>
    ELSE LoopEvents(n - 1) \o <<Ev("progress", n), Ev("load", n), Ev("extend", n)>>

FullRun == LoopEvents(NumFiles) \o <<Ev("prompt", 0), Ev("writer", 0), Ev("saved", 0)>>

IsPrefix(a, b) == Len(a) <= Len(b) /\ SubSeq(b, 1, Len(a)) = a

NoSep(f) == \A k \in 1..Len(f) : f[k] # "/"

\* the output directories with their leading ~ or ~user expanded
ExpandedDir(d) ==
    CASE d = <<"~", "/", "D">> -> <<"/", "h", "/", "D">>
      [] d = <<"~">>           -> <<"/", "h">>
      [] d = <<"~", "/">>      -> <<"/", "h", "/">>
      [] d = <<"~", "u">>      -> <<"/", "u">>
      [] OTHER                 -> d

\* the entry f of directory d; an empty d is the current directory
InDir(d, f) ==
    IF d = <<>> THEN f
    ELSE IF Last(d) = "/" THEN d \o f
    ELSE d \o <<"/">> \o f

Returned == w_pc = "returned" /\ w_res.exc = NoExc

\* C10 as stated: for every filename ending in ".csv" and every output
\* directory, a call that returns has written the file at, and returned, the
\* entry <filename> of the expanded output directory.
C10_InsideOutputDir ==
    Returned =>
        /\ w_res.ret = w_res.wrote
        /\ w_res.ret = InDir(ExpandedDir(w_output_dir), w_filename)
        /\ w_res.ret \in DOMAIN disk
        /\ disk[w_res.ret] = w_data

\* C10 amended: the same for every filename ending in ".csv" that contains
\* no "/" and every non-empty output directory.
C10_PathInsideDir ==
    (Returned /\ NoSep(w_filename) /\ w_output_dir # <<>>) =>
        /\ w_res.ret = w_res.wrote
        /\ w_res.ret = InDir(ExpandedDir(w_output_dir), w_filename)
        /\ w_res.ret \in DOMAIN disk
        /\ disk[w_res.ret] = w_data

C10_Witness ==
    /\ Returned
    /\ w_output_dir = DefaultOutputDir
    /\ w_filename = <<"a", ".", "c", "s", "v">>
    /\ w_res.ret = <<"/", "h", "/", "D", "/", "a", ".", "c", "s", "v">>
    /\ w_before # << >>
    /\ disk[w_res.ret] = w_data

====
